---- MODULE Spec2Model ----
(***************************************************************************)
(* Workout clock of jokkerin-ventti (workout-state.ts): the pure           *)
(* state-transition function tick(state, exercises) and createInitialState,*)
(* applied repeatedly to the state it returns.                             *)
(*                                                                         *)
(* exerciseIndex is 0-based as in the source; the exercise list is a TLA+  *)
(* sequence, so exercises[i] of the source is ExerciseAt(exs, i) here.     *)
(* An exercise's optional intermediateBeeps array is modelled as the set   *)
(* of its elements (the code only asks includes()); an absent array and an *)
(* empty one both give the empty set.  An exercise's name is modelled by   *)
(* its position in the list, so that names are pairwise distinct.          *)
(*                                                                         *)
(* Spec runs the clock over lists of up to MaxExercises exercises with     *)
(* short durations and no intermediate beeps; SpecLong runs it over one    *)
(* exercise with longer durations and intermediate beeps.                  *)
(*                                                                         *)
(* SpecAny applies tick to an arbitrary well-typed state, as the unit      *)
(* tests do with hand-built states; SpecLive runs the clock from its       *)
(* initial state with the periodic timer's guarantee that the next tick    *)
(* always comes.                                                           *)
(*                                                                         *)
(* SpecHost runs the page of main.ts: start clicks, the periodic timer's   *)
(* tickLoop, stopAndResetWorkout, the skip callbacks and the asynchronous  *)
(* completions of the wake lock calls.  SpecEditor runs the undo history   *)
(* of history.ts under the keyframe editor, SpecKeyframes under an editor  *)
(* that adds keyframes until the history is full.                          *)
(*                                                                         *)
(* intermediateAt, almostAt and finishedCount are history variables:       *)
(* intermediateAt holds the values workoutTimer had after each tick of the *)
(* current work interval that emitted play_sound intermediate; almostAt    *)
(* holds the value the counted-down timer had after each tick of the       *)
(* current interval (Ready, Workout or Rest) that emitted an almost_start  *)
(* or almost_pause cue; finishedCount counts the finished events emitted   *)
(* since the start of the run.  phaseTicks, startedNames, startCues and    *)
(* workedSets are history variables too: phaseTicks counts the ticks       *)
(* called so far on the interval the last tick was called in; startedNames *)
(* lists the names of the start_exercise events of the run, startCues      *)
(* counts its play_sound start events and workedSets lists the pairs       *)
(* <<exerciseIndex, setIndex>> of the work intervals entered.  The last    *)
(* three stop recording one entry past the number of sets of the list.     *)
(***************************************************************************)
EXTENDS Integers, Sequences, FiniteSets, TLC

VARIABLES exercises, state, events, prev, ticked, intermediateAt, almostAt,
          finishedCount, phaseTicks, startedNames, startCues, workedSets,
          host, hostLast, history, historyLast

clockVars ==
    <<exercises, state, events, prev, ticked, intermediateAt, almostAt,
      finishedCount, phaseTicks, startedNames, startCues, workedSets>>

vars == <<clockVars, host, hostLast, history, historyLast>>

\* ---------------------------------------------------------------- bounds
MaxExercises == 2
MaxWorkoutTime == 2
MaxPauseTime == 2
MaxSetCount == 2
MaxLongWorkoutTime == 5
MaxLongPauseTime == 5
MaxBeepOffset == 4
MaxLongSetCount == 3
MaxAnyExercises == 2
MaxAnyDuration == 2
MaxAnySetCount == 2
MaxHostExercises == 2
MaxStarts == 3
MaxStartHandlers == 2
MaxSaves == 2
MaxKeyframes == 11

\* ------------------------------------------------------------- constants
READY_PHASE_DURATION == 10

\* ----------------------------------------------------------------- types
Ready == "ready"
Workout == "workout"
Rest == "rest"
Finished == "finished"

WorkoutPhase == {Ready, Workout, Rest, Finished}

ExerciseParams ==
    [workoutTime : 1..MaxWorkoutTime,
     pauseTime : 0..MaxPauseTime,
     setCount : 1..MaxSetCount,
     intermediateBeeps : {{}}]

Exercise(i, p) ==
    [name |-> i,
     workoutTime |-> p.workoutTime,
     pauseTime |-> p.pauseTime,
     setCount |-> p.setCount,
     intermediateBeeps |-> p.intermediateBeeps]

ExerciseLists ==
    {[i \in 1..Len(f) |-> Exercise(i, f[i])]
       : f \in UNION {[1..n -> ExerciseParams] : n \in 0..MaxExercises}}

LongExerciseParams ==
    [workoutTime : 1..MaxLongWorkoutTime,
     pauseTime : 0..MaxLongPauseTime,
     setCount : 1..MaxLongSetCount,
     intermediateBeeps : SUBSET (1..MaxBeepOffset)]

LongExerciseLists == {<<Exercise(1, p)>> : p \in LongExerciseParams}

\* Exercise lists for ticks on hand-built states: every exercise has one
\* duration used for both its workoutTime and its pauseTime.
AnyExerciseParams ==
    {[workoutTime |-> d, pauseTime |-> d, setCount |-> c,
      intermediateBeeps |-> {}]
       : d \in 1..MaxAnyDuration, c \in 1..MaxAnySetCount}

AnyExerciseLists ==
    {[i \in 1..Len(f) |-> Exercise(i, f[i])]
       : f \in UNION {[1..n -> AnyExerciseParams] : n \in 1..MaxAnyExercises}}

ExerciseAt(exs, i) == exs[i + 1]

\* The well-typed states over an exercise list: any phase, a position on a
\* set of the list, and timers anywhere from 0 to the longest duration.
WorkoutStates(exs) ==
    {s \in [phase : WorkoutPhase,
            exerciseIndex : 0..(Len(exs) - 1),
            setIndex : 1..MaxAnySetCount,
            workoutTimer : 0..MaxAnyDuration,
            pauseTimer : 0..MaxAnyDuration]
       : s.setIndex <= ExerciseAt(exs, s.exerciseIndex).setCount}

\* ---------------------------------------------------------------- events
StartExerciseEvent(n) == [type |-> "start_exercise", exerciseName |-> n]
PlaySoundEvent(snd) == [type |-> "play_sound", sound |-> snd]
PhaseChangeEvent(p) == [type |-> "phase_change", phase |-> p]
FinishedEvent == [type |-> "finished"]

TickResult(s, evs) == [newState |-> s, events |-> evs]

\* --------------------------------------------------------- createInitialState
\* Variant of createInitialState: the lead-in is the first exercise's pauseTime.
createInitialState_PauseFromExercise(exs) ==
    IF Len(exs) = 0
    THEN [phase |-> Finished, exerciseIndex |-> 0, setIndex |-> 0,
          workoutTimer |-> 0, pauseTimer |-> 0]
    ELSE [phase |-> Ready, exerciseIndex |-> 0, setIndex |-> 1,
          workoutTimer |-> ExerciseAt(exs, 0).workoutTime,
          pauseTimer |-> ExerciseAt(exs, 0).pauseTime]

\* Variant of createInitialState: the empty-list state has setIndex 1.
createInitialState_EmptySetIndexOne(exs) ==
    IF Len(exs) = 0
    THEN [phase |-> Finished, exerciseIndex |-> 0, setIndex |-> 1,
          workoutTimer |-> 0, pauseTimer |-> 0]
    ELSE [phase |-> Ready, exerciseIndex |-> 0, setIndex |-> 1,
          workoutTimer |-> ExerciseAt(exs, 0).workoutTime,
          pauseTimer |-> READY_PHASE_DURATION]

createInitialState(exs) ==
    IF Len(exs) = 0
    THEN [phase |-> Finished, exerciseIndex |-> 0, setIndex |-> 0,
          workoutTimer |-> 0, pauseTimer |-> 0]
    ELSE [phase |-> Ready, exerciseIndex |-> 0, setIndex |-> 1,
          workoutTimer |-> ExerciseAt(exs, 0).workoutTime,
          pauseTimer |-> READY_PHASE_DURATION]

\* --------------------------------------------------------- advanceToNextRound
\* Variant of advanceToNextRound: the phase is not set to Finished when the
\* exercise list is exhausted.
advanceToNextRound_KeepsPhase(s, exs) ==
    LET currentExercise == ExerciseAt(exs, s.exerciseIndex)
        s1 == [s EXCEPT !.setIndex = s.setIndex + 1]
        nextExercise == s1.setIndex > currentExercise.setCount
        s2 == IF nextExercise
              THEN [s1 EXCEPT !.exerciseIndex = s1.exerciseIndex + 1,
                              !.setIndex = 1]
              ELSE s1
    IN  IF nextExercise /\ s2.exerciseIndex >= Len(exs)
        THEN TickResult(s2, <<FinishedEvent>>)
        ELSE LET nextEx == ExerciseAt(exs, s2.exerciseIndex)
                 ev1 == IF nextExercise
                        THEN <<StartExerciseEvent(nextEx.name)>>
                        ELSE <<>>
             IN  TickResult(
                    [s2 EXCEPT !.workoutTimer = nextEx.workoutTime,
                               !.pauseTimer = nextEx.pauseTime,
                               !.phase = Workout],
                    ev1 \o <<PlaySoundEvent("start"), PhaseChangeEvent(Workout)>>)

\* Variant of advanceToNextRound: setIndex is not reset to 1 when moving to the
\* next exercise.
advanceToNextRound_NoSetReset(s, exs) ==
    LET currentExercise == ExerciseAt(exs, s.exerciseIndex)
        s1 == [s EXCEPT !.setIndex = s.setIndex + 1]
        nextExercise == s1.setIndex > currentExercise.setCount
        s2 == IF nextExercise
              THEN [s1 EXCEPT !.exerciseIndex = s1.exerciseIndex + 1]
              ELSE s1
    IN  IF nextExercise /\ s2.exerciseIndex >= Len(exs)
        THEN TickResult([s2 EXCEPT !.phase = Finished], <<FinishedEvent>>)
        ELSE LET nextEx == ExerciseAt(exs, s2.exerciseIndex)
                 ev1 == IF nextExercise
                        THEN <<StartExerciseEvent(nextEx.name)>>
                        ELSE <<>>
             IN  TickResult(
                    [s2 EXCEPT !.workoutTimer = nextEx.workoutTime,
                               !.pauseTimer = nextEx.pauseTime,
                               !.phase = Workout],
                    ev1 \o <<PlaySoundEvent("start"), PhaseChangeEvent(Workout)>>)

\* Variant of advanceToNextRound: the rest timer is not reloaded for the new
\* set.
advanceToNextRound_KeepsPauseTimer(s, exs) ==
    LET currentExercise == ExerciseAt(exs, s.exerciseIndex)
        s1 == [s EXCEPT !.setIndex = s.setIndex + 1]
        nextExercise == s1.setIndex > currentExercise.setCount
        s2 == IF nextExercise
              THEN [s1 EXCEPT !.exerciseIndex = s1.exerciseIndex + 1,
                              !.setIndex = 1]
              ELSE s1
    IN  IF nextExercise /\ s2.exerciseIndex >= Len(exs)
        THEN TickResult([s2 EXCEPT !.phase = Finished], <<FinishedEvent>>)
        ELSE LET nextEx == ExerciseAt(exs, s2.exerciseIndex)
                 ev1 == IF nextExercise
                        THEN <<StartExerciseEvent(nextEx.name)>>
                        ELSE <<>>
             IN  TickResult(
                    [s2 EXCEPT !.workoutTimer = nextEx.workoutTime,
                               !.phase = Workout],
                    ev1 \o <<PlaySoundEvent("start"), PhaseChangeEvent(Workout)>>)

\* Variant of advanceToNextRound: start_exercise carries the name of the
\* exercise that was just completed.
advanceToNextRound_StartsOldExercise(s, exs) ==
    LET currentExercise == ExerciseAt(exs, s.exerciseIndex)
        s1 == [s EXCEPT !.setIndex = s.setIndex + 1]
        nextExercise == s1.setIndex > currentExercise.setCount
        s2 == IF nextExercise
              THEN [s1 EXCEPT !.exerciseIndex = s1.exerciseIndex + 1,
                              !.setIndex = 1]
              ELSE s1
    IN  IF nextExercise /\ s2.exerciseIndex >= Len(exs)
        THEN TickResult([s2 EXCEPT !.phase = Finished], <<FinishedEvent>>)
        ELSE LET nextEx == ExerciseAt(exs, s2.exerciseIndex)
                 ev1 == IF nextExercise
                        THEN <<StartExerciseEvent(currentExercise.name)>>
                        ELSE <<>>
             IN  TickResult(
                    [s2 EXCEPT !.workoutTimer = nextEx.workoutTime,
                               !.pauseTimer = nextEx.pauseTime,
                               !.phase = Workout],
                    ev1 \o <<PlaySoundEvent("start"), PhaseChangeEvent(Workout)>>)

\* Variant of advanceToNextRound: both timers are cleared when the workout
\* finishes.
advanceToNextRound_ClearsTimersOnFinish(s, exs) ==
    LET currentExercise == ExerciseAt(exs, s.exerciseIndex)
        s1 == [s EXCEPT !.setIndex = s.setIndex + 1]
        nextExercise == s1.setIndex > currentExercise.setCount
        s2 == IF nextExercise
              THEN [s1 EXCEPT !.exerciseIndex = s1.exerciseIndex + 1,
                              !.setIndex = 1]
              ELSE s1
    IN  IF nextExercise /\ s2.exerciseIndex >= Len(exs)
        THEN TickResult([s2 EXCEPT !.phase = Finished, !.workoutTimer = 0, !.pauseTimer = 0], <<FinishedEvent>>)
        ELSE LET nextEx == ExerciseAt(exs, s2.exerciseIndex)
                 ev1 == IF nextExercise
                        THEN <<StartExerciseEvent(nextEx.name)>>
                        ELSE <<>>
             IN  TickResult(
                    [s2 EXCEPT !.workoutTimer = nextEx.workoutTime,
                               !.pauseTimer = nextEx.pauseTime,
                               !.phase = Workout],
                    ev1 \o <<PlaySoundEvent("start"), PhaseChangeEvent(Workout)>>)

\* Variant of advanceToNextRound: after the last exercise the workout starts
\* over at exercise 0 instead of finishing.
advanceToNextRound_WrapsAround(s, exs) ==
    LET currentExercise == ExerciseAt(exs, s.exerciseIndex)
        s1 == [s EXCEPT !.setIndex = s.setIndex + 1]
        nextExercise == s1.setIndex > currentExercise.setCount
        s2 == IF nextExercise
              THEN [s1 EXCEPT !.exerciseIndex = (s1.exerciseIndex + 1) % Len(exs),
                              !.setIndex = 1]
              ELSE s1
    IN  IF nextExercise /\ s2.exerciseIndex >= Len(exs)
        THEN TickResult([s2 EXCEPT !.phase = Finished], <<FinishedEvent>>)
        ELSE LET nextEx == ExerciseAt(exs, s2.exerciseIndex)
                 ev1 == IF nextExercise
                        THEN <<StartExerciseEvent(nextEx.name)>>
                        ELSE <<>>
             IN  TickResult(
                    [s2 EXCEPT !.workoutTimer = nextEx.workoutTime,
                               !.pauseTimer = nextEx.pauseTime,
                               !.phase = Workout],
                    ev1 \o <<PlaySoundEvent("start"), PhaseChangeEvent(Workout)>>)

\* Variant of advanceToNextRound: the new set starts without play_sound start.
advanceToNextRound_NoStartSound(s, exs) ==
    LET currentExercise == ExerciseAt(exs, s.exerciseIndex)
        s1 == [s EXCEPT !.setIndex = s.setIndex + 1]
        nextExercise == s1.setIndex > currentExercise.setCount
        s2 == IF nextExercise
              THEN [s1 EXCEPT !.exerciseIndex = s1.exerciseIndex + 1,
                              !.setIndex = 1]
              ELSE s1
    IN  IF nextExercise /\ s2.exerciseIndex >= Len(exs)
        THEN TickResult([s2 EXCEPT !.phase = Finished], <<FinishedEvent>>)
        ELSE LET nextEx == ExerciseAt(exs, s2.exerciseIndex)
                 ev1 == IF nextExercise
                        THEN <<StartExerciseEvent(nextEx.name)>>
                        ELSE <<>>
             IN  TickResult(
                    [s2 EXCEPT !.workoutTimer = nextEx.workoutTime,
                               !.pauseTimer = nextEx.pauseTime,
                               !.phase = Workout],
                    ev1 \o <<PhaseChangeEvent(Workout)>>)

\* Variant of advanceToNextRound: setIndex is raised by two.
advanceToNextRound_SkipsSet(s, exs) ==
    LET currentExercise == ExerciseAt(exs, s.exerciseIndex)
        s1 == [s EXCEPT !.setIndex = s.setIndex + 2]
        nextExercise == s1.setIndex > currentExercise.setCount
        s2 == IF nextExercise
              THEN [s1 EXCEPT !.exerciseIndex = s1.exerciseIndex + 1,
                              !.setIndex = 1]
              ELSE s1
    IN  IF nextExercise /\ s2.exerciseIndex >= Len(exs)
        THEN TickResult([s2 EXCEPT !.phase = Finished], <<FinishedEvent>>)
        ELSE LET nextEx == ExerciseAt(exs, s2.exerciseIndex)
                 ev1 == IF nextExercise
                        THEN <<StartExerciseEvent(nextEx.name)>>
                        ELSE <<>>
             IN  TickResult(
                    [s2 EXCEPT !.workoutTimer = nextEx.workoutTime,
                               !.pauseTimer = nextEx.pauseTime,
                               !.phase = Workout],
                    ev1 \o <<PlaySoundEvent("start"), PhaseChangeEvent(Workout)>>)

\* Variant of advanceToNextRound: a new exercise starts with a Ready lead-in.
advanceToNextRound_LeadInPerExercise(s, exs) ==
    LET currentExercise == ExerciseAt(exs, s.exerciseIndex)
        s1 == [s EXCEPT !.setIndex = s.setIndex + 1]
        nextExercise == s1.setIndex > currentExercise.setCount
        s2 == IF nextExercise
              THEN [s1 EXCEPT !.exerciseIndex = s1.exerciseIndex + 1,
                              !.setIndex = 1]
              ELSE s1
    IN  IF nextExercise /\ s2.exerciseIndex >= Len(exs)
        THEN TickResult([s2 EXCEPT !.phase = Finished], <<FinishedEvent>>)
        ELSE LET nextEx == ExerciseAt(exs, s2.exerciseIndex)
                 ev1 == IF nextExercise
                        THEN <<StartExerciseEvent(nextEx.name)>>
                        ELSE <<>>
             IN  TickResult(
                    [s2 EXCEPT !.workoutTimer = nextEx.workoutTime,
                               !.pauseTimer = nextEx.pauseTime,
                               !.phase = IF nextExercise
                                         THEN Ready
                                         ELSE Workout],
                    ev1 \o <<PlaySoundEvent("start"), PhaseChangeEvent(Workout)>>)

advanceToNextRound(s, exs) ==
    LET currentExercise == ExerciseAt(exs, s.exerciseIndex)
        s1 == [s EXCEPT !.setIndex = s.setIndex + 1]
        nextExercise == s1.setIndex > currentExercise.setCount
        s2 == IF nextExercise
              THEN [s1 EXCEPT !.exerciseIndex = s1.exerciseIndex + 1,
                              !.setIndex = 1]
              ELSE s1
    IN  IF nextExercise /\ s2.exerciseIndex >= Len(exs)
        THEN TickResult([s2 EXCEPT !.phase = Finished], <<FinishedEvent>>)
        ELSE LET nextEx == ExerciseAt(exs, s2.exerciseIndex)
                 ev1 == IF nextExercise
                        THEN <<StartExerciseEvent(nextEx.name)>>
                        ELSE <<>>
             IN  TickResult(
                    [s2 EXCEPT !.workoutTimer = nextEx.workoutTime,
                               !.pauseTimer = nextEx.pauseTime,
                               !.phase = Workout],
                    ev1 \o <<PlaySoundEvent("start"), PhaseChangeEvent(Workout)>>)

\* ------------------------------------------------------------ handleReadyTick
\* Variant of handleReadyTick: the transition's events are pushed in the order
\* phase_change, start_exercise, play_sound.
handleReadyTick_OldEventOrder(s, exs) ==
    LET currentExercise == ExerciseAt(exs, s.exerciseIndex)
    IN  IF s.pauseTimer > 1
        THEN LET s1 == [s EXCEPT !.pauseTimer = s.pauseTimer - 1]
             IN  TickResult(s1,
                    IF s1.pauseTimer <= 3 /\ s1.pauseTimer > 0
                    THEN <<PlaySoundEvent("almost_start")>>
                    ELSE <<>>)
        ELSE TickResult([s EXCEPT !.phase = Workout],
                <<PhaseChangeEvent(Workout),
                  StartExerciseEvent(currentExercise.name),
                  PlaySoundEvent("start")>>)

\* Variant of handleReadyTick: the almost_start test reads the timer before the
\* decrement.
handleReadyTick_SoundBeforeDecrement(s, exs) ==
    LET currentExercise == ExerciseAt(exs, s.exerciseIndex)
    IN  IF s.pauseTimer > 1
        THEN LET s1 == [s EXCEPT !.pauseTimer = s.pauseTimer - 1]
             IN  TickResult(s1,
                    IF s.pauseTimer <= 3 /\ s.pauseTimer > 0
                    THEN <<PlaySoundEvent("almost_start")>>
                    ELSE <<>>)
        ELSE TickResult([s EXCEPT !.phase = Workout],
                <<PlaySoundEvent("start"), PhaseChangeEvent(Workout),
                  StartExerciseEvent(currentExercise.name)>>)

\* Variant of handleReadyTick: the transition pushes no start_exercise.
handleReadyTick_NoStartExercise(s, exs) ==
    LET currentExercise == ExerciseAt(exs, s.exerciseIndex)
    IN  IF s.pauseTimer > 1
        THEN LET s1 == [s EXCEPT !.pauseTimer = s.pauseTimer - 1]
             IN  TickResult(s1,
                    IF s1.pauseTimer <= 3 /\ s1.pauseTimer > 0
                    THEN <<PlaySoundEvent("almost_start")>>
                    ELSE <<>>)
        ELSE TickResult([s EXCEPT !.phase = Workout],
                <<PlaySoundEvent("start"), PhaseChangeEvent(Workout)>>)

handleReadyTick(s, exs) ==
    LET currentExercise == ExerciseAt(exs, s.exerciseIndex)
    IN  IF s.pauseTimer > 1
        THEN LET s1 == [s EXCEPT !.pauseTimer = s.pauseTimer - 1]
             IN  TickResult(s1,
                    IF s1.pauseTimer <= 3 /\ s1.pauseTimer > 0
                    THEN <<PlaySoundEvent("almost_start")>>
                    ELSE <<>>)
        ELSE TickResult([s EXCEPT !.phase = Workout],
                <<PlaySoundEvent("start"), PhaseChangeEvent(Workout),
                  StartExerciseEvent(currentExercise.name)>>)

\* ----------------------------------------------------------- transitionToRest
\* Variant of transitionToRest: the rest timer is decremented on entry.
transitionToRest_Decrements(s) ==
    TickResult([s EXCEPT !.phase = Rest, !.pauseTimer = s.pauseTimer - 1], <<PhaseChangeEvent(Rest)>>)

\* Variant of transitionToRest: no phase_change event is pushed.
transitionToRest_NoPhaseChange(s) ==
    TickResult([s EXCEPT !.phase = Rest], <<>>)

transitionToRest(s) ==
    TickResult([s EXCEPT !.phase = Rest], <<PhaseChangeEvent(Rest)>>)

\* ---------------------------------------------------------- handleWorkoutTick
\* Variant of handleWorkoutTick: the end-of-workout test looks at the exercise
\* index only, not at the set index.
handleWorkoutTick_LastExerciseOnly(s, exs) ==
    LET currentExercise == ExerciseAt(exs, s.exerciseIndex)
        ev0 == IF s.phase # Workout THEN <<PhaseChangeEvent(Workout)>> ELSE <<>>
        s0 == [s EXCEPT !.phase = Workout]
    IN  IF s0.workoutTimer > 1
        THEN LET s1 == [s0 EXCEPT !.workoutTimer = s0.workoutTimer - 1]
                 ev1 == IF s1.workoutTimer = 0
                        THEN <<PlaySoundEvent("pause")>>
                        ELSE IF s1.workoutTimer <= 3 /\ s1.workoutTimer > 0
                             THEN <<PlaySoundEvent("almost_pause")>>
                             ELSE <<>>
                 ev2 == IF s1.workoutTimer \in currentExercise.intermediateBeeps
                        THEN <<PlaySoundEvent("intermediate")>>
                        ELSE <<>>
             IN  TickResult(s1, ev0 \o ev1 \o ev2)
        ELSE LET isLastSetOfLastExample ==
                     s0.exerciseIndex = Len(exs) - 1
             IN  IF ~isLastSetOfLastExample
                 THEN transitionToRest(s0)
                 ELSE advanceToNextRound(s0, exs)

\* Variant of handleWorkoutTick: a finished work interval always goes to Rest.
handleWorkoutTick_AlwaysRest(s, exs) ==
    LET currentExercise == ExerciseAt(exs, s.exerciseIndex)
        ev0 == IF s.phase # Workout THEN <<PhaseChangeEvent(Workout)>> ELSE <<>>
        s0 == [s EXCEPT !.phase = Workout]
    IN  IF s0.workoutTimer > 1
        THEN LET s1 == [s0 EXCEPT !.workoutTimer = s0.workoutTimer - 1]
                 ev1 == IF s1.workoutTimer = 0
                        THEN <<PlaySoundEvent("pause")>>
                        ELSE IF s1.workoutTimer <= 3 /\ s1.workoutTimer > 0
                             THEN <<PlaySoundEvent("almost_pause")>>
                             ELSE <<>>
                 ev2 == IF s1.workoutTimer \in currentExercise.intermediateBeeps
                        THEN <<PlaySoundEvent("intermediate")>>
                        ELSE <<>>
             IN  TickResult(s1, ev0 \o ev1 \o ev2)
        ELSE LET isLastSetOfLastExample ==
                     /\ s0.exerciseIndex = Len(exs) - 1
                     /\ s0.setIndex = currentExercise.setCount
             IN  IF isLastSetOfLastExample \/ ~isLastSetOfLastExample
                 THEN transitionToRest(s0)
                 ELSE advanceToNextRound(s0, exs)

\* Variant of handleWorkoutTick: the intermediate beep is pushed before the
\* almost_pause cue.
handleWorkoutTick_IntermediateFirst(s, exs) ==
    LET currentExercise == ExerciseAt(exs, s.exerciseIndex)
        ev0 == IF s.phase # Workout THEN <<PhaseChangeEvent(Workout)>> ELSE <<>>
        s0 == [s EXCEPT !.phase = Workout]
    IN  IF s0.workoutTimer > 1
        THEN LET s1 == [s0 EXCEPT !.workoutTimer = s0.workoutTimer - 1]
                 ev1 == IF s1.workoutTimer = 0
                        THEN <<PlaySoundEvent("pause")>>
                        ELSE IF s1.workoutTimer <= 3 /\ s1.workoutTimer > 0
                             THEN <<PlaySoundEvent("almost_pause")>>
                             ELSE <<>>
                 ev2 == IF s1.workoutTimer \in currentExercise.intermediateBeeps
                        THEN <<PlaySoundEvent("intermediate")>>
                        ELSE <<>>
             IN  TickResult(s1, ev0 \o ev2 \o ev1)
        ELSE LET isLastSetOfLastExample ==
                     /\ s0.exerciseIndex = Len(exs) - 1
                     /\ s0.setIndex = currentExercise.setCount
             IN  IF ~isLastSetOfLastExample
                 THEN transitionToRest(s0)
                 ELSE advanceToNextRound(s0, exs)

\* Variant of handleWorkoutTick: the intermediate beep test reads the timer
\* before the decrement.
handleWorkoutTick_BeepBeforeDecrement(s, exs) ==
    LET currentExercise == ExerciseAt(exs, s.exerciseIndex)
        ev0 == IF s.phase # Workout THEN <<PhaseChangeEvent(Workout)>> ELSE <<>>
        s0 == [s EXCEPT !.phase = Workout]
    IN  IF s0.workoutTimer > 1
        THEN LET s1 == [s0 EXCEPT !.workoutTimer = s0.workoutTimer - 1]
                 ev1 == IF s1.workoutTimer = 0
                        THEN <<PlaySoundEvent("pause")>>
                        ELSE IF s1.workoutTimer <= 3 /\ s1.workoutTimer > 0
                             THEN <<PlaySoundEvent("almost_pause")>>
                             ELSE <<>>
                 ev2 == IF s0.workoutTimer \in currentExercise.intermediateBeeps
                        THEN <<PlaySoundEvent("intermediate")>>
                        ELSE <<>>
             IN  TickResult(s1, ev0 \o ev1 \o ev2)
        ELSE LET isLastSetOfLastExample ==
                     /\ s0.exerciseIndex = Len(exs) - 1
                     /\ s0.setIndex = currentExercise.setCount
             IN  IF ~isLastSetOfLastExample
                 THEN transitionToRest(s0)
                 ELSE advanceToNextRound(s0, exs)

\* Variant of handleWorkoutTick: the countdown guard is workoutTimer > 0.
handleWorkoutTick_DecrementAtZero(s, exs) ==
    LET currentExercise == ExerciseAt(exs, s.exerciseIndex)
        ev0 == IF s.phase # Workout THEN <<PhaseChangeEvent(Workout)>> ELSE <<>>
        s0 == [s EXCEPT !.phase = Workout]
    IN  IF s0.workoutTimer > 0
        THEN LET s1 == [s0 EXCEPT !.workoutTimer = s0.workoutTimer - 1]
                 ev1 == IF s1.workoutTimer = 0
                        THEN <<PlaySoundEvent("pause")>>
                        ELSE IF s1.workoutTimer <= 3 /\ s1.workoutTimer > 0
                             THEN <<PlaySoundEvent("almost_pause")>>
                             ELSE <<>>
                 ev2 == IF s1.workoutTimer \in currentExercise.intermediateBeeps
                        THEN <<PlaySoundEvent("intermediate")>>
                        ELSE <<>>
             IN  TickResult(s1, ev0 \o ev1 \o ev2)
        ELSE LET isLastSetOfLastExample ==
                     /\ s0.exerciseIndex = Len(exs) - 1
                     /\ s0.setIndex = currentExercise.setCount
             IN  IF ~isLastSetOfLastExample
                 THEN transitionToRest(s0)
                 ELSE advanceToNextRound(s0, exs)

handleWorkoutTick(s, exs) ==
    LET currentExercise == ExerciseAt(exs, s.exerciseIndex)
        ev0 == IF s.phase # Workout THEN <<PhaseChangeEvent(Workout)>> ELSE <<>>
        s0 == [s EXCEPT !.phase = Workout]
    IN  IF s0.workoutTimer > 1
        THEN LET s1 == [s0 EXCEPT !.workoutTimer = s0.workoutTimer - 1]
                 ev1 == IF s1.workoutTimer = 0
                        THEN <<PlaySoundEvent("pause")>>
                        ELSE IF s1.workoutTimer <= 3 /\ s1.workoutTimer > 0
                             THEN <<PlaySoundEvent("almost_pause")>>
                             ELSE <<>>
                 ev2 == IF s1.workoutTimer \in currentExercise.intermediateBeeps
                        THEN <<PlaySoundEvent("intermediate")>>
                        ELSE <<>>
             IN  TickResult(s1, ev0 \o ev1 \o ev2)
        ELSE LET isLastSetOfLastExample ==
                     /\ s0.exerciseIndex = Len(exs) - 1
                     /\ s0.setIndex = currentExercise.setCount
             IN  IF ~isLastSetOfLastExample
                 THEN transitionToRest(s0)
                 ELSE advanceToNextRound(s0, exs)

\* ------------------------------------------------------------- handleRestTick
\* Variant of handleRestTick: the countdown guard is pauseTimer >= 0.
handleRestTick_DecrementAtZero(s, exs) ==
    LET currentExercise == ExerciseAt(exs, s.exerciseIndex)
        ev0 == IF s.phase # Rest THEN <<PhaseChangeEvent(Rest)>> ELSE <<>>
        s0 == [s EXCEPT !.phase = Rest]
        isLastSetOfLastExample ==
            /\ s0.exerciseIndex = Len(exs) - 1
            /\ s0.setIndex = currentExercise.setCount
    IN  IF s0.pauseTimer >= 0 /\ ~isLastSetOfLastExample
        THEN LET s1 == [s0 EXCEPT !.pauseTimer = s0.pauseTimer - 1]
             IN  TickResult(s1,
                    ev0 \o (IF s1.pauseTimer <= 3 /\ s1.pauseTimer > 0
                            THEN <<PlaySoundEvent("almost_start")>>
                            ELSE <<>>))
        ELSE advanceToNextRound(s0, exs)

\* Variant of handleRestTick: the almost_start test is pauseTimer < 3.
handleRestTick_AlmostBelowThree(s, exs) ==
    LET currentExercise == ExerciseAt(exs, s.exerciseIndex)
        ev0 == IF s.phase # Rest THEN <<PhaseChangeEvent(Rest)>> ELSE <<>>
        s0 == [s EXCEPT !.phase = Rest]
        isLastSetOfLastExample ==
            /\ s0.exerciseIndex = Len(exs) - 1
            /\ s0.setIndex = currentExercise.setCount
    IN  IF s0.pauseTimer > 1 /\ ~isLastSetOfLastExample
        THEN LET s1 == [s0 EXCEPT !.pauseTimer = s0.pauseTimer - 1]
             IN  TickResult(s1,
                    ev0 \o (IF s1.pauseTimer < 3 /\ s1.pauseTimer > 0
                            THEN <<PlaySoundEvent("almost_start")>>
                            ELSE <<>>))
        ELSE advanceToNextRound(s0, exs)

\* Variant of handleRestTick: the countdown does not test for the last set of
\* the last exercise.
handleRestTick_CountsDownAtTerminalSet(s, exs) ==
    LET currentExercise == ExerciseAt(exs, s.exerciseIndex)
        ev0 == IF s.phase # Rest THEN <<PhaseChangeEvent(Rest)>> ELSE <<>>
        s0 == [s EXCEPT !.phase = Rest]
        isLastSetOfLastExample ==
            /\ s0.exerciseIndex = Len(exs) - 1
            /\ s0.setIndex = currentExercise.setCount
    IN  IF s0.pauseTimer > 1
        THEN LET s1 == [s0 EXCEPT !.pauseTimer = s0.pauseTimer - 1]
             IN  TickResult(s1,
                    ev0 \o (IF s1.pauseTimer <= 3 /\ s1.pauseTimer > 0
                            THEN <<PlaySoundEvent("almost_start")>>
                            ELSE <<>>))
        ELSE advanceToNextRound(s0, exs)

handleRestTick(s, exs) ==
    LET currentExercise == ExerciseAt(exs, s.exerciseIndex)
        ev0 == IF s.phase # Rest THEN <<PhaseChangeEvent(Rest)>> ELSE <<>>
        s0 == [s EXCEPT !.phase = Rest]
        isLastSetOfLastExample ==
            /\ s0.exerciseIndex = Len(exs) - 1
            /\ s0.setIndex = currentExercise.setCount
    IN  IF s0.pauseTimer > 1 /\ ~isLastSetOfLastExample
        THEN LET s1 == [s0 EXCEPT !.pauseTimer = s0.pauseTimer - 1]
             IN  TickResult(s1,
                    ev0 \o (IF s1.pauseTimer <= 3 /\ s1.pauseTimer > 0
                            THEN <<PlaySoundEvent("almost_start")>>
                            ELSE <<>>))
        ELSE advanceToNextRound(s0, exs)

\* --------------------------------------------------------- handleFinishedTick
\* Variant of handleFinishedTick: the finished event is emitted again.
handleFinishedTick_ReEmits(s) == TickResult(s, <<FinishedEvent>>)

handleFinishedTick(s) == TickResult(s, <<>>)

\* ----------------------------------------------------------------------- tick
tick(s, exs) ==
    CASE s.phase = Ready -> handleReadyTick(s, exs)
      [] s.phase = Workout -> handleWorkoutTick(s, exs)
      [] s.phase = Rest -> handleRestTick(s, exs)
      [] s.phase = Finished -> handleFinishedTick(s)
      [] OTHER -> TickResult(s, <<>>)

\* ======================================================== host (main.ts)
\* The host's module-level variables and the browser objects they refer to
\* are the fields of one record h:
\*   state, intervalId, wakeLock   the variables of main.ts;
\*   startButtonHidden             startButton.hidden;
\*   startHandlers                 the one-shot click listeners on the button;
\*   activeTimers                  the ids of the periodic timers the browser
\*                                 still runs; timerCount ids were handed out;
\*   pendingRequests               navigator.wakeLock.request promises not yet
\*                                 settled;
\*   heldSentinels                 the wake lock sentinels granted and not
\*                                 released; sentinelCount were granted;
\*   pendingReleases               releaseWakeLock calls suspended at
\*                                 await wakeLock.release().
\* intervalId and wakeLock hold Null or an id; ids start at 1.
Null == 0

\* Exercise lists of the host runs: up to MaxHostExercises exercises, the
\* i-th of i sets with i seconds of work and i of rest, so that the exercises
\* of a list differ in every field.
HostExerciseLists ==
    {[i \in 1..n |-> Exercise(i, [workoutTime |-> i, pauseTime |-> i,
                                  setCount |-> i, intermediateBeeps |-> {}])]
       : n \in 0..MaxHostExercises}

\* The host after init(): the workout is loaded, no timer, no wake lock, and
\* startWorkout attached once to the visible start button.
hostInitial(exs) ==
    [state |-> createInitialState(exs),
     intervalId |-> Null,
     wakeLock |-> Null,
     startButtonHidden |-> FALSE,
     startHandlers |-> 1,
     activeTimers |-> {},
     timerCount |-> 0,
     pendingRequests |-> 0,
     heldSentinels |-> {},
     sentinelCount |-> 0,
     pendingReleases |-> 0]

\* Variant of clearInterval: the browser timer keeps running.
clearInterval_KeepsTimer(h, id) == h

clearInterval(h, id) == [h EXCEPT !.activeTimers = @ \ {id}]

\* window.setInterval(tickLoop, 1000): a new timer with a fresh id, stored in
\* intervalId by both callers.
setInterval(h) ==
    [h EXCEPT !.timerCount = @ + 1,
              !.activeTimers = @ \cup {h.timerCount + 1},
              !.intervalId = h.timerCount + 1]

\* requestWakeLock up to its await: the request is in flight.
requestWakeLock(h) == [h EXCEPT !.pendingRequests = @ + 1]

\* releaseWakeLock up to its await: nothing when wakeLock is null, else
\* release() is called on the sentinel wakeLock holds (which releases it) and
\* the assignment wakeLock = null is left for the continuation.
releaseWakeLock(h) ==
    IF h.wakeLock # Null
    THEN [h EXCEPT !.heldSentinels = @ \ {h.wakeLock},
                   !.pendingReleases = @ + 1]
    ELSE h

\* Variant of startWorkout: the previous timer is not cleared.
startWorkout_KeepsOldTimer(h, exs) ==
    LET h1 == requestWakeLock(h)
        h2 == [h1 EXCEPT !.state = createInitialState(exs),
                         !.startButtonHidden = TRUE]
    IN  setInterval(h2)

startWorkout(h, exs) ==
    LET h1 == requestWakeLock(h)
        h2 == [h1 EXCEPT !.state = createInitialState(exs),
                         !.startButtonHidden = TRUE]
        h3 == IF h2.intervalId # Null
              THEN clearInterval(h2, h2.intervalId)
              ELSE h2
    IN  setInterval(h3)

stopAndResetWorkout(h, exs) ==
    LET h1 == IF h.intervalId # Null
              THEN [clearInterval(h, h.intervalId) EXCEPT !.intervalId = Null]
              ELSE h
        h2 == releaseWakeLock(h1)
    IN  [h2 EXCEPT !.state = createInitialState(exs),
                   !.startButtonHidden = FALSE,
                   !.startHandlers = @ + 1]

\* One iteration of handleEvents' loop: play_sound and start_exercise reach
\* the audio and the animation only; finished stops and resets the workout.
handleEvent(h, exs, e) ==
    IF e = FinishedEvent
    THEN LET h1 == stopAndResetWorkout(h, exs)
             h2 == IF h1.intervalId # Null
                   THEN [clearInterval(h1, h1.intervalId)
                            EXCEPT !.intervalId = Null]
                   ELSE h1
         IN  releaseWakeLock(h2)
    ELSE h

RECURSIVE handleEvents(_, _, _)
handleEvents(h, exs, evs) ==
    IF evs = <<>>
    THEN h
    ELSE handleEvents(handleEvent(h, exs, Head(evs)), exs, Tail(evs))

tickLoop(h, exs) ==
    LET result == tick(h.state, exs)
    IN  handleEvents([h EXCEPT !.state = result.newState], exs, result.events)

\* Variant of skipToExercise: setIndex is not reset.
skipToExercise_KeepsSetIndex(h, exs, index) ==
    IF index < 0 \/ index >= Len(exs)
    THEN h
    ELSE [h EXCEPT !.state =
                       [phase |-> Workout,
                        exerciseIndex |-> index,
                        setIndex |-> h.state.setIndex,
                        workoutTimer |-> ExerciseAt(exs, index).workoutTime,
                        pauseTimer |-> ExerciseAt(exs, index).pauseTime]]

skipToExercise(h, exs, index) ==
    IF index < 0 \/ index >= Len(exs)
    THEN h
    ELSE [h EXCEPT !.state =
                       [phase |-> Workout,
                        exerciseIndex |-> index,
                        setIndex |-> 1,
                        workoutTimer |-> ExerciseAt(exs, index).workoutTime,
                        pauseTimer |-> ExerciseAt(exs, index).pauseTime]]

skipNextExercise(h, exs) ==
    IF h.state.exerciseIndex < Len(exs) - 1
    THEN skipToExercise(h, exs, h.state.exerciseIndex + 1)
    ELSE h

skipPrevExercise(h, exs) ==
    IF h.state.exerciseIndex > 0
    THEN skipToExercise(h, exs, h.state.exerciseIndex - 1)
    ELSE h

\* A click on the start button runs every attached one-shot listener, each a
\* call of startWorkout: n calls in a row.
RECURSIVE dispatchClick(_, _, _)
dispatchClick(h, exs, n) ==
    IF n = 0 THEN h ELSE dispatchClick(startWorkout(h, exs), exs, n - 1)

\* ================================================ undo history (history.ts)
\* The module's undoStack, redoStack and callbacks (registered or null) and the
\* editor the callbacks read and write are the fields of one record h:
\* h.editor is the triple getPoseJson, getKeyframeIndex and getSelectedJoint
\* return, and h.calls lists the calls of loadPose, setKeyframeIndex,
\* setSelectedJoint and onHistoryRestore made by the last operation.
MAX_UNDO_STATES == 10

\* selectedJoint is a joint number or null.
NoJoint == -1

\* The editor states: a pose, a keyframe index and a selected joint.
UndoState ==
    [keyframeIndex : {0, 42},
     poseJson : {"{}", "correct-json"},
     selectedJoint : {NoJoint, 7}]

\* history.ts as loaded, before initHistory, with the editor as it starts.
historyInitial ==
    [undoStack |-> <<>>,
     redoStack |-> <<>>,
     callbacks |-> FALSE,
     editor |-> [keyframeIndex |-> 0, poseJson |-> "{}",
                 selectedJoint |-> NoJoint],
     calls |-> <<>>]

initHistory(h) == [h EXCEPT !.callbacks = TRUE]

clearHistory(h) == [h EXCEPT !.undoStack = <<>>, !.redoStack = <<>>]

\* Variant of saveUndoState: no entry is ever discarded.
saveUndoState_NoShift(h) ==
    IF ~h.callbacks
    THEN h
    ELSE [h EXCEPT !.undoStack = Append(h.undoStack, h.editor),
                   !.redoStack = <<>>]

\* Variant of saveUndoState: the redo stack is kept.
saveUndoState_KeepsRedo(h) ==
    IF ~h.callbacks
    THEN h
    ELSE LET pushed == Append(h.undoStack, h.editor)
         IN  [h EXCEPT !.undoStack = IF Len(pushed) > MAX_UNDO_STATES
                                     THEN Tail(pushed)
                                     ELSE pushed]

saveUndoState(h) ==
    IF ~h.callbacks
    THEN h
    ELSE LET pushed == Append(h.undoStack, h.editor)
         IN  [h EXCEPT !.undoStack = IF Len(pushed) > MAX_UNDO_STATES
                                     THEN Tail(pushed)
                                     ELSE pushed,
                       !.redoStack = <<>>]

\* The callbacks as the editor registers them: loadPose, setKeyframeIndex and
\* setSelectedJoint store their argument in the editor.
restoreState(h, st) ==
    IF ~h.callbacks
    THEN h
    ELSE [h EXCEPT !.editor = st,
                   !.calls = @ \o
                       <<[fn |-> "loadPose", json |-> st.poseJson],
                         [fn |-> "setKeyframeIndex", index |-> st.keyframeIndex],
                         [fn |-> "setSelectedJoint", index |-> st.selectedJoint],
                         [fn |-> "onHistoryRestore"]>>]

\* Variant of undo: no test for an empty undo stack (pop() of an empty array
\* gives undefined, restoreState throws on it and the catch ends the call).
undo_NoEmptyTest(h) ==
    IF ~h.callbacks
    THEN h
    ELSE LET h1 == [h EXCEPT !.redoStack = Append(@, h.editor)]
         IN  IF Len(h1.undoStack) = 0
             THEN h1
             ELSE restoreState(
                     [h1 EXCEPT !.undoStack =
                                    SubSeq(@, 1, Len(h1.undoStack) - 1)],
                     h1.undoStack[Len(h1.undoStack)])

\* Variant of undo: the oldest entry is taken (shift() for pop()).
undo_TakesOldest(h) ==
    IF ~h.callbacks \/ Len(h.undoStack) = 0
    THEN h
    ELSE LET h1 == [h EXCEPT !.redoStack = Append(@, h.editor)]
         IN  restoreState([h1 EXCEPT !.undoStack = Tail(@)], Head(h1.undoStack))

undo(h) ==
    IF ~h.callbacks \/ Len(h.undoStack) = 0
    THEN h
    ELSE LET h1 == [h EXCEPT !.redoStack = Append(@, h.editor)]
         IN  restoreState(
                 [h1 EXCEPT !.undoStack = SubSeq(@, 1, Len(h1.undoStack) - 1)],
                 h1.undoStack[Len(h1.undoStack)])

redo(h) ==
    IF ~h.callbacks \/ Len(h.redoStack) = 0
    THEN h
    ELSE LET h1 == [h EXCEPT !.undoStack = Append(@, h.editor)]
         IN  restoreState(
                 [h1 EXCEPT !.redoStack = SubSeq(@, 1, Len(h1.redoStack) - 1)],
                 h1.redoStack[Len(h1.redoStack)])

\* ------------------------------------------------------------- state machine
\* The clock variables at the start of a run over the list exercises.
ClockStart ==
    /\ state = createInitialState(exercises)
    /\ events = <<>>
    /\ prev = state
    /\ ticked = FALSE
    /\ intermediateAt = <<>>
    /\ almostAt = <<>>
    /\ finishedCount = 0
    /\ phaseTicks = 0
    /\ startedNames = <<>>
    /\ startCues = 0
    /\ workedSets = <<>>

\* The host and the undo history as loaded.  hostLast and historyLast record
\* the last step taken on each.
HostStart ==
    /\ host = hostInitial(exercises)
    /\ hostLast = [action |-> "init", events |-> <<>>, starts |-> 0]

HistoryStart ==
    /\ history = historyInitial
    /\ historyLast = [op |-> "load", before |-> "load", saves |-> 0,
                      captured |-> <<>>, beforeUndo |-> <<>>,
                      redone |-> <<>>, discarded |-> 0, undoBefore |-> 0]

\* A run of the clock starts from createInitialState of an exercise list.
Init ==
    /\ exercises \in ExerciseLists
    /\ state = createInitialState(exercises)
    /\ events = <<>>
    /\ prev = state
    /\ ticked = FALSE
    /\ intermediateAt = <<>>
    /\ almostAt = <<>>
    /\ finishedCount = 0
    /\ phaseTicks = 0
    /\ startedNames = <<>>
    /\ startCues = 0
    /\ workedSets = <<>>
    /\ HostStart
    /\ HistoryStart

\* A run over a single exercise with longer durations and intermediate beeps.
InitLong ==
    /\ exercises \in LongExerciseLists
    /\ state = createInitialState(exercises)
    /\ events = <<>>
    /\ prev = state
    /\ ticked = FALSE
    /\ intermediateAt = <<>>
    /\ almostAt = <<>>
    /\ finishedCount = 0
    /\ phaseTicks = 0
    /\ startedNames = <<>>
    /\ startCues = 0
    /\ workedSets = <<>>
    /\ HostStart
    /\ HistoryStart

\* A single call of tick on a hand-built state over a non-empty list.
InitAny ==
    /\ exercises \in AnyExerciseLists
    /\ state \in WorkoutStates(exercises)
    /\ events = <<>>
    /\ prev = state
    /\ ticked = FALSE
    /\ intermediateAt = <<>>
    /\ almostAt = <<>>
    /\ finishedCount = 0
    /\ phaseTicks = 0
    /\ startedNames = <<>>
    /\ startCues = 0
    /\ workedSets = <<>>
    /\ HostStart
    /\ HistoryStart

\* A run from createInitialState over a non-empty list: several exercises of
\* short duration, or one exercise of longer duration.
InitLive ==
    /\ exercises \in AnyExerciseLists \cup LongExerciseLists
    /\ state = createInitialState(exercises)
    /\ events = <<>>
    /\ prev = state
    /\ ticked = FALSE
    /\ intermediateAt = <<>>
    /\ almostAt = <<>>
    /\ finishedCount = 0
    /\ phaseTicks = 0
    /\ startedNames = <<>>
    /\ startCues = 0
    /\ workedSets = <<>>
    /\ HostStart
    /\ HistoryStart

\* The number of occurrences of event e in the event list evs.
CountOf(evs, e) == Cardinality({i \in 1..Len(evs) : evs[i] = e})

\* The exercise names of the start_exercise events of evs, in order.
StartedIn(evs) ==
    LET starts == SelectSeq(evs, LAMBDA e : e.type = "start_exercise")
    IN  [i \in 1..Len(starts) |-> starts[i].exerciseName]

\* The number of sets of the list: the sum of setCount over its exercises.
RECURSIVE TotalSets(_)
TotalSets(exs) ==
    IF exs = <<>> THEN 0 ELSE Head(exs).setCount + TotalSets(Tail(exs))

\* One call of tick on the current state: the caller replaces its state by
\* newState (state = result.newState) and receives the returned events.  prev
\* records the state the call was made on, ticked that a call has been made.
\* intermediateAt is emptied by a tick that enters Workout and extended by the
\* new workoutTimer for every play_sound intermediate the tick returns.
\* almostAt is emptied by a tick that changes the phase and extended by the new
\* pauseTimer for every almost_start and by the new workoutTimer for every
\* almost_pause the tick returns.  phaseTicks restarts at 1 on the first tick
\* of an interval and is not counted in Finished.
Tick ==
    /\ LET result == tick(state, exercises)
       IN  /\ state' = result.newState
           /\ events' = result.events
           /\ intermediateAt' =
                  IF result.newState.phase = Workout /\ state.phase # Workout
                  THEN <<>>
                  ELSE intermediateAt \o
                       [i \in 1..CountOf(result.events,
                                         PlaySoundEvent("intermediate"))
                          |-> result.newState.workoutTimer]
           /\ almostAt' =
                  (IF result.newState.phase # state.phase THEN <<>> ELSE almostAt)
                  \o [i \in 1..CountOf(result.events,
                                       PlaySoundEvent("almost_start"))
                        |-> result.newState.pauseTimer]
                  \o [i \in 1..CountOf(result.events,
                                       PlaySoundEvent("almost_pause"))
                        |-> result.newState.workoutTimer]
           /\ finishedCount' =
                  finishedCount + CountOf(result.events, FinishedEvent)
           /\ startedNames' =
                  IF Len(startedNames) > TotalSets(exercises)
                  THEN startedNames
                  ELSE startedNames \o StartedIn(result.events)
           /\ startCues' =
                  IF startCues > TotalSets(exercises)
                  THEN startCues
                  ELSE startCues
                       + CountOf(result.events, PlaySoundEvent("start"))
           /\ workedSets' =
                  IF /\ result.newState.phase = Workout
                     /\ state.phase # Workout
                     /\ Len(workedSets) <= TotalSets(exercises)
                  THEN Append(workedSets, <<result.newState.exerciseIndex,
                                            result.newState.setIndex>>)
                  ELSE workedSets
    /\ phaseTicks' =
           IF state.phase = Finished
           THEN 0
           ELSE IF ticked /\ prev.phase # state.phase
                THEN 1
                ELSE phaseTicks + 1
    /\ prev' = state
    /\ ticked' = TRUE
    /\ UNCHANGED <<exercises, host, hostLast, history, historyLast>>

Next == Tick

Spec == Init /\ [][Next]_vars

SpecLong == InitLong /\ [][Next]_vars

SpecAny == InitAny /\ [][Next]_vars

\* The host calls tick from a periodic timer (window.setInterval(tickLoop,
\* 1000)): while the timer runs, the next call always comes.
SpecLive == InitLive /\ [][Next]_vars /\ WF_vars(Tick)

\* ------------------------------------------------------------ host machine
\* The page after init(), with a workout of HostExerciseLists loaded.
InitHost ==
    /\ exercises \in HostExerciseLists
    /\ ClockStart
    /\ HostStart
    /\ HistoryStart

\* The user clicks the visible start button: every attached one-shot listener
\* runs startWorkout and is removed.
StartClick ==
    /\ ~host.startButtonHidden
    /\ host.startHandlers > 0
    /\ host.timerCount + host.startHandlers <= MaxStarts
    /\ host' = [dispatchClick(host, exercises, host.startHandlers)
                   EXCEPT !.startHandlers = 0]
    /\ hostLast' = [action |-> "click", events |-> <<>>,
                    starts |-> host.startHandlers]
    /\ UNCHANGED <<clockVars, history, historyLast>>

\* A periodic timer the browser still runs fires: tickLoop.
TickLoop ==
    /\ host.activeTimers # {}
    /\ host' = tickLoop(host, exercises)
    /\ hostLast' = [action |-> "tick",
                    events |-> tick(host.state, exercises).events,
                    starts |-> 0]
    /\ UNCHANGED <<clockVars, history, historyLast>>

\* stopAndResetWorkout is called from outside the workout (on entering editor
\* mode).
StopAndResetWorkout ==
    /\ host.startHandlers < MaxStartHandlers
    /\ host' = stopAndResetWorkout(host, exercises)
    /\ hostLast' = [action |-> "stop", events |-> <<>>, starts |-> 0]
    /\ UNCHANGED <<clockVars, history, historyLast>>

\* A pending navigator.wakeLock.request resolves: requestWakeLock resumes and
\* stores the new sentinel in wakeLock.
WakeLockGranted ==
    /\ host.pendingRequests > 0
    /\ host' = [host EXCEPT !.pendingRequests = @ - 1,
                            !.sentinelCount = @ + 1,
                            !.heldSentinels = @ \cup {host.sentinelCount + 1},
                            !.wakeLock = host.sentinelCount + 1]
    /\ hostLast' = [action |-> "granted", events |-> <<>>, starts |-> 0]
    /\ UNCHANGED <<clockVars, history, historyLast>>

\* A pending navigator.wakeLock.request rejects: requestWakeLock's catch.
WakeLockDenied ==
    /\ host.pendingRequests > 0
    /\ host' = [host EXCEPT !.pendingRequests = @ - 1]
    /\ hostLast' = [action |-> "denied", events |-> <<>>, starts |-> 0]
    /\ UNCHANGED <<clockVars, history, historyLast>>

\* A suspended releaseWakeLock resumes after its await: wakeLock = null.
WakeLockReleased ==
    /\ host.pendingReleases > 0
    /\ host' = [host EXCEPT !.pendingReleases = @ - 1, !.wakeLock = Null]
    /\ hostLast' = [action |-> "released", events |-> <<>>, starts |-> 0]
    /\ UNCHANGED <<clockVars, history, historyLast>>

\* The next-exercise button's click listener (or the key n) runs
\* skipNextExercise.
SkipNextExercise ==
    /\ host' = skipNextExercise(host, exercises)
    /\ hostLast' = [action |-> "next", events |-> <<>>, starts |-> 0]
    /\ UNCHANGED <<clockVars, history, historyLast>>

\* The previous-exercise button's click listener (or the key p) runs
\* skipPrevExercise.
SkipPrevExercise ==
    /\ host' = skipPrevExercise(host, exercises)
    /\ hostLast' = [action |-> "prev", events |-> <<>>, starts |-> 0]
    /\ UNCHANGED <<clockVars, history, historyLast>>

NextHost ==
    \/ StartClick
    \/ TickLoop
    \/ StopAndResetWorkout
    \/ SkipNextExercise
    \/ SkipPrevExercise
    \/ WakeLockGranted
    \/ WakeLockDenied
    \/ WakeLockReleased

SpecHost == InitHost /\ [][NextHost]_vars

\* ---------------------------------------------------- undo history machine
\* The keyframe editor with history.ts loaded and no workout.
InitEditor ==
    /\ exercises = <<>>
    /\ ClockStart
    /\ HostStart
    /\ HistoryStart

\* historyLast after the step op that takes the history to the record after:
\* it keeps the operation before it, the number of saveUndoState calls, the
\* triple the last saveUndoState captured while no undo, redo or clearHistory
\* followed (captured), the editor state at the undo that followed that
\* capture (beforeUndo), the state a redo right after that was due to restore
\* (redone), the number of redo entries the last saveUndoState dropped
\* (discarded) and the length the undo stack had before the step
\* (undoBefore).
HistoryLog(op, after, captured, beforeUndo, redone) ==
    [op |-> op,
     before |-> historyLast.op,
     saves |-> historyLast.saves + (IF op = "save" THEN 1 ELSE 0),
     captured |-> captured,
     beforeUndo |-> beforeUndo,
     redone |-> redone,
     discarded |-> IF op = "save"
                   THEN Len(history.redoStack) - Len(after.redoStack)
                   ELSE historyLast.discarded,
     undoBefore |-> Len(history.undoStack)]

\* Every operation starts with an empty call list.
Started(h) == [h EXCEPT !.calls = <<>>]

\* The editor's init() registers its callbacks.
RegisterCallbacks ==
    /\ history' = initHistory(Started(history))
    /\ historyLast' = HistoryLog("init", history', historyLast.captured,
                                 historyLast.beforeUndo, <<>>)
    /\ UNCHANGED <<clockVars, host, hostLast>>

ClearHistory ==
    /\ history' = clearHistory(Started(history))
    /\ historyLast' = HistoryLog("clear", history', <<>>, <<>>, <<>>)
    /\ UNCHANGED <<clockVars, host, hostLast>>

SaveUndoState ==
    /\ historyLast.saves < MaxSaves
    /\ history' = saveUndoState(Started(history))
    /\ historyLast' = HistoryLog("save", history',
                                 IF history.callbacks
                                 THEN <<history.editor>>
                                 ELSE <<>>,
                                 <<>>, <<>>)
    /\ UNCHANGED <<clockVars, host, hostLast>>

Undo ==
    /\ history' = undo(Started(history))
    /\ historyLast' = HistoryLog("undo", history', <<>>,
                                 IF historyLast.captured # <<>>
                                 THEN <<history.editor>>
                                 ELSE <<>>,
                                 <<>>)
    /\ UNCHANGED <<clockVars, host, hostLast>>

Redo ==
    /\ history' = redo(Started(history))
    /\ historyLast' = HistoryLog("redo", history', <<>>, <<>>,
                                 historyLast.beforeUndo)
    /\ UNCHANGED <<clockVars, host, hostLast>>

\* The user edits the pose, moves to another keyframe or selects a joint.
EditPose ==
    /\ \E e \in UndoState \ {history.editor} :
           history' = [Started(history) EXCEPT !.editor = e]
    /\ historyLast' = HistoryLog("edit", history', historyLast.captured,
                                 historyLast.beforeUndo, <<>>)
    /\ UNCHANGED <<clockVars, host, hostLast>>

NextEditor ==
    \/ RegisterCallbacks
    \/ ClearHistory
    \/ SaveUndoState
    \/ Undo
    \/ Redo
    \/ EditPose

SpecEditor == InitEditor /\ [][NextEditor]_vars

\* ---------------------------------------------------------- keyframe machine
\* addKeyframeHandler: saveUndoState() captures the editor, then the keyframe
\* is added after the current one and becomes the current one.  The clip is
\* held by the animation engine; the model keeps poseJson and tells the
\* captured states apart by their keyframe index.  The editor stops adding at
\* MaxKeyframes.
AddKeyframe ==
    /\ history.editor.keyframeIndex < MaxKeyframes
    /\ history' = [saveUndoState(Started(history))
                      EXCEPT !.editor.keyframeIndex = @ + 1]
    /\ historyLast' = HistoryLog("add", history', <<>>, <<>>, <<>>)
    /\ UNCHANGED <<clockVars, host, hostLast>>

NextKeyframes ==
    \/ RegisterCallbacks
    \/ AddKeyframe
    \/ Undo
    \/ Redo
    \/ ClearHistory

SpecKeyframes == InitEditor /\ [][NextKeyframes]_vars

\* ==================================================================== claims
\* The set a state is on is the last set of the last exercise of the list.
IsTerminalSet(s) ==
    /\ s.exerciseIndex = Len(exercises) - 1
    /\ s.setIndex = ExerciseAt(exercises, s.exerciseIndex).setCount

\* The last tick was taken in phase Workout with workoutTimer = 1.
WorkoutEndTick == ticked /\ prev.phase = Workout /\ prev.workoutTimer = 1

\* C1: a tick taken in phase Workout with workoutTimer = 1 leads to Finished
\* exactly when the set is the last set of the last exercise, and to Rest in
\* every other combination.
C1_RestSkippedOnlyAtTerminalSet ==
    WorkoutEndTick =>
        /\ state.phase = Finished <=> IsTerminalSet(prev)
        /\ ~IsTerminalSet(prev) => state.phase = Rest

C1_Witness ==
    /\ WorkoutEndTick
    /\ prev.exerciseIndex = Len(exercises) - 1
    /\ prev.setIndex < ExerciseAt(exercises, prev.exerciseIndex).setCount
    /\ state.phase = Rest

\* C2: the tick that ends the last set of the last exercise goes directly to
\* Finished with the event list [finished]; no state rests on the last set of
\* the last exercise; and with a single one-set exercise no tick emits
\* phase_change(rest).
C2_TerminalSetFinishesWithoutRest ==
    /\ (WorkoutEndTick /\ IsTerminalSet(prev)) =>
           (state.phase = Finished /\ events = <<FinishedEvent>>)
    /\ state.phase = Rest => ~IsTerminalSet(state)
    /\ (Len(exercises) = 1 /\ ExerciseAt(exercises, 0).setCount = 1) =>
           \A i \in 1..Len(events) : events[i] # PhaseChangeEvent(Rest)

C2_Witness ==
    /\ WorkoutEndTick
    /\ Len(exercises) = 1
    /\ ExerciseAt(exercises, 0).setCount = 1
    /\ state.phase = Finished
    /\ events = <<FinishedEvent>>

\* C3: a tick on a Finished state returns that state, field by field, and an
\* empty event list; the result being the input, this repeats for any number
\* of consecutive ticks.
C3_FinishedIsAbsorbing ==
    (ticked /\ prev.phase = Finished) => (state = prev /\ events = <<>>)

C3_Witness ==
    /\ ticked
    /\ prev.phase = Finished
    /\ state.phase = Finished
    /\ Len(exercises) > 0
    /\ state.exerciseIndex = Len(exercises)

\* C4: in every state reached from the initial state, a phase other than
\* Finished has 0 <= exerciseIndex < number of exercises.
C4_ExerciseIndexInRange ==
    state.phase # Finished =>
        (0 <= state.exerciseIndex /\ state.exerciseIndex < Len(exercises))

C4_Witness ==
    /\ ticked
    /\ state.phase = Workout
    /\ prev.phase = Rest
    /\ state.exerciseIndex = prev.exerciseIndex + 1
    /\ state.exerciseIndex = Len(exercises) - 1

\* C5: in every state reached from the initial state, phases Workout and Rest
\* have 1 <= setIndex <= setCount of the current exercise.
C5_SetIndexInRange ==
    state.phase \in {Workout, Rest} =>
        /\ 1 <= state.setIndex
        /\ state.setIndex <= ExerciseAt(exercises, state.exerciseIndex).setCount

C5_Witness ==
    /\ ticked
    /\ state.phase = Workout
    /\ prev.phase = Rest
    /\ prev.setIndex = 2
    /\ state.exerciseIndex = prev.exerciseIndex + 1
    /\ state.setIndex = 1
    /\ ExerciseAt(exercises, state.exerciseIndex).setCount = 1

\* C6: in every state reached from the initial state both timers are >= 0,
\* also for exercises whose rest duration is 0 or 1.
C6_TimersNonNegative ==
    state.workoutTimer >= 0 /\ state.pauseTimer >= 0

C6_Witness ==
    /\ ticked
    /\ prev.phase = Rest
    /\ prev.pauseTimer = 0
    /\ ExerciseAt(exercises, prev.exerciseIndex).pauseTime = 0
    /\ state.phase = Workout

\* C7: a tick taken in phase Ready with the lead-in timer at 1 moves to Workout,
\* keeps exerciseIndex, setIndex and workoutTimer, and emits exactly
\* [play_sound(start), phase_change(workout), start_exercise(current name)].
C7_ReadyToWorkoutTransition ==
    (ticked /\ prev.phase = Ready /\ prev.pauseTimer = 1) =>
        /\ state.phase = Workout
        /\ state.exerciseIndex = prev.exerciseIndex
        /\ state.setIndex = prev.setIndex
        /\ state.workoutTimer = prev.workoutTimer
        /\ events = <<PlaySoundEvent("start"), PhaseChangeEvent(Workout),
                      StartExerciseEvent(
                          ExerciseAt(exercises, prev.exerciseIndex).name)>>

C7_Witness ==
    /\ ticked
    /\ prev.phase = Ready
    /\ prev.pauseTimer = 1
    /\ state.phase = Workout

\* C8: after the tick that moves from Ready to Workout the rest timer holds
\* the configured pauseTime of exercise 0.
C8_RestTimerLoadedOnStart ==
    (ticked /\ prev.phase = Ready /\ state.phase = Workout) =>
        state.pauseTimer = ExerciseAt(exercises, 0).pauseTime

\* C9: every tick that moves from Workout to Rest leaves the rest timer at the
\* configured pauseTime of the current exercise, and when that is >= 2 the
\* following tick stays in Rest.
C9_RestStartsAtConfiguredDuration ==
    [][(state.phase = Workout /\ state'.phase = Rest) =>
          /\ state'.pauseTimer =
                 ExerciseAt(exercises, state'.exerciseIndex).pauseTime
          /\ ExerciseAt(exercises, state'.exerciseIndex).pauseTime >= 2 =>
                 tick(state', exercises).newState.phase = Rest]_vars

\* C10: a tick taken in phase Workout with workoutTimer = 1 on a set that is
\* not the last set of the last exercise emits exactly
\* [play_sound(pause), phase_change(rest)] and moves to Rest.
C10_PauseSoundOnRestTransition ==
    (WorkoutEndTick /\ ~IsTerminalSet(prev)) =>
        /\ events = <<PlaySoundEvent("pause"), PhaseChangeEvent(Rest)>>
        /\ state.phase = Rest

\* C11: the tick that moves from Workout to Rest changes the phase only: both
\* timers, exerciseIndex and setIndex keep the values of the input state.
C11_RestTransitionChangesPhaseOnly ==
    (ticked /\ prev.phase = Workout /\ state.phase = Rest) =>
        state = [prev EXCEPT !.phase = Rest]

C11_Witness ==
    /\ ticked
    /\ prev.phase = Workout
    /\ state.phase = Rest
    /\ state.pauseTimer = 2
    /\ state.workoutTimer = 1

\* C12: a tick taken in phase Ready with the lead-in timer above 1 decrements
\* that timer by exactly 1 and changes nothing else; it emits
\* [play_sound(almost_start)] when the new value is 1, 2 or 3 and nothing
\* otherwise.
C12_ReadyCountdown ==
    (ticked /\ prev.phase = Ready /\ prev.pauseTimer > 1) =>
        /\ state = [prev EXCEPT !.pauseTimer = prev.pauseTimer - 1]
        /\ events = IF state.pauseTimer \in 1..3
                    THEN <<PlaySoundEvent("almost_start")>>
                    ELSE <<>>

C12_Witness ==
    /\ ticked
    /\ prev.phase = Ready
    /\ prev.pauseTimer = 4
    /\ state.pauseTimer = 3
    /\ events = <<PlaySoundEvent("almost_start")>>

\* C13: a tick taken in phase Workout with workoutTimer above 1 decrements
\* workoutTimer by exactly 1 and changes nothing else; its events are
\* play_sound(almost_pause) iff the new value is 1, 2 or 3, followed by
\* play_sound(intermediate) iff the new value is one of the exercise's
\* intermediate beeps, and no other event.
C13_WorkoutCountdown ==
    (ticked /\ prev.phase = Workout /\ prev.workoutTimer > 1) =>
        /\ state = [prev EXCEPT !.workoutTimer = prev.workoutTimer - 1]
        /\ events =
               (IF state.workoutTimer \in 1..3
                THEN <<PlaySoundEvent("almost_pause")>>
                ELSE <<>>)
               \o
               (IF state.workoutTimer \in
                      ExerciseAt(exercises, prev.exerciseIndex).intermediateBeeps
                THEN <<PlaySoundEvent("intermediate")>>
                ELSE <<>>)

C13_Witness ==
    /\ ticked
    /\ prev.phase = Workout
    /\ prev.workoutTimer = 4
    /\ ExerciseAt(exercises, prev.exerciseIndex).intermediateBeeps = {3, 4}
    /\ events = <<PlaySoundEvent("almost_pause"), PlaySoundEvent("intermediate")>>

\* C14: play_sound(intermediate) is emitted only by a tick that stays in
\* Workout, at most once per tick, and when a work interval of an exercise with
\* workoutTime W ends, the ticks of that interval that emitted it are, once
\* each, exactly those whose resulting workoutTimer is a configured offset k
\* with 1 <= k < W.
C14_OneIntermediateBeepPerOffset ==
    LET beep == PlaySoundEvent("intermediate")
        ex == ExerciseAt(exercises, prev.exerciseIndex)
        offsets == {k \in ex.intermediateBeeps : 1 <= k /\ k < ex.workoutTime}
    IN  /\ CountOf(events, beep) <= 1
        /\ CountOf(events, beep) = 1 =>
               /\ ticked
               /\ prev.phase = Workout
               /\ state.phase = Workout
               /\ state.workoutTimer \in ex.intermediateBeeps
        /\ (ticked /\ prev.phase = Workout /\ state.phase # Workout) =>
               /\ Len(intermediateAt) = Cardinality(offsets)
               /\ \A k \in offsets :
                      Cardinality({i \in 1..Len(intermediateAt) :
                                      intermediateAt[i] = k}) = 1

C14_Witness ==
    /\ ticked
    /\ prev.phase = Workout
    /\ state.phase # Workout
    /\ ExerciseAt(exercises, prev.exerciseIndex).workoutTime = 4
    /\ ExerciseAt(exercises, prev.exerciseIndex).intermediateBeeps = {1, 3, 4}
    /\ intermediateAt = <<3, 1>>

\* C15: a tick taken in phase Rest with the rest timer above 1, on a set that is
\* not the last set of the last exercise, decrements the rest timer by exactly
\* 1 and changes nothing else; it emits [play_sound(almost_start)] when the new
\* value is 1, 2 or 3 and nothing otherwise.
C15_RestCountdown ==
    (ticked /\ prev.phase = Rest /\ prev.pauseTimer > 1 /\ ~IsTerminalSet(prev)) =>
        /\ state = [prev EXCEPT !.pauseTimer = prev.pauseTimer - 1]
        /\ events = IF state.pauseTimer \in 1..3
                    THEN <<PlaySoundEvent("almost_start")>>
                    ELSE <<>>

C15_Witness ==
    /\ ticked
    /\ prev.phase = Rest
    /\ prev.pauseTimer = 4
    /\ state.phase = Rest
    /\ state.pauseTimer = 3
    /\ events = <<PlaySoundEvent("almost_start")>>

\* C16: a tick taken in phase Rest with the rest timer at 1 and setIndex below
\* the exercise's setCount moves to Workout on the same exercise with setIndex
\* increased by 1 and both timers reloaded from the exercise, and emits exactly
\* [play_sound(start), phase_change(workout)].
C16_RestToNextSet ==
    LET ex == ExerciseAt(exercises, prev.exerciseIndex)
    IN  (ticked /\ prev.phase = Rest /\ prev.pauseTimer = 1
                /\ prev.setIndex < ex.setCount) =>
            /\ state = [phase |-> Workout,
                        exerciseIndex |-> prev.exerciseIndex,
                        setIndex |-> prev.setIndex + 1,
                        workoutTimer |-> ex.workoutTime,
                        pauseTimer |-> ex.pauseTime]
            /\ events = <<PlaySoundEvent("start"), PhaseChangeEvent(Workout)>>

C16_Witness ==
    /\ ticked
    /\ prev.phase = Rest
    /\ prev.pauseTimer = 1
    /\ prev.setIndex = 1
    /\ state.phase = Workout
    /\ state.setIndex = 2
    /\ state.pauseTimer = 2
    /\ state.workoutTimer = 2

\* C17: a tick taken in phase Rest with the rest timer at 1 on the last set of
\* an exercise that is not the last one moves to Workout on the next exercise
\* with setIndex 1 and both timers loaded from that exercise, and emits exactly
\* [start_exercise(next name), play_sound(start), phase_change(workout)].
C17_RestToNextExercise ==
    LET ex == ExerciseAt(exercises, prev.exerciseIndex)
    IN  (ticked /\ prev.phase = Rest /\ prev.pauseTimer = 1
                /\ prev.setIndex = ex.setCount
                /\ prev.exerciseIndex < Len(exercises) - 1) =>
            LET nextEx == ExerciseAt(exercises, prev.exerciseIndex + 1)
            IN  /\ state = [phase |-> Workout,
                            exerciseIndex |-> prev.exerciseIndex + 1,
                            setIndex |-> 1,
                            workoutTimer |-> nextEx.workoutTime,
                            pauseTimer |-> nextEx.pauseTime]
                /\ events = <<StartExerciseEvent(nextEx.name),
                              PlaySoundEvent("start"),
                              PhaseChangeEvent(Workout)>>

C17_Witness ==
    /\ ticked
    /\ prev.phase = Rest
    /\ prev.pauseTimer = 1
    /\ prev.setIndex = 2
    /\ prev.exerciseIndex = 0
    /\ state.phase = Workout
    /\ state.exerciseIndex = 1
    /\ events[1] = StartExerciseEvent(2)

\* C18: for a non-empty exercise list the initial state is Ready on exercise 0,
\* set 1, with workoutTimer the first exercise's workoutTime and the rest timer
\* the lead-in constant 10, whatever the first exercise's pauseTime.
C18_InitialStateNonEmpty ==
    (~ticked /\ Len(exercises) > 0) =>
        state = [phase |-> Ready, exerciseIndex |-> 0, setIndex |-> 1,
                 workoutTimer |-> ExerciseAt(exercises, 0).workoutTime,
                 pauseTimer |-> 10]

C18_Witness ==
    /\ ~ticked
    /\ Len(exercises) > 0
    /\ ExerciseAt(exercises, 0).pauseTime = 2
    /\ ExerciseAt(exercises, 0).workoutTime = 2
    /\ state.phase = Ready

\* C19: for an empty exercise list the initial state is Finished with both
\* indices and both timers 0, and every tick returns that state and no events.
C19_EmptyListIsFinished ==
    Len(exercises) = 0 =>
        /\ state = [phase |-> Finished, exerciseIndex |-> 0, setIndex |-> 0,
                    workoutTimer |-> 0, pauseTimer |-> 0]
        /\ events = <<>>

C19_Witness ==
    /\ Len(exercises) = 0
    /\ ticked
    /\ prev.phase = Finished
    /\ state.phase = Finished

\* C20: the tick that moves past the last set of the last exercise ends in
\* Finished, emits exactly [finished], and leaves workoutTimer and the rest
\* timer at the values of the input state.
C20_FinishKeepsTimers ==
    (ticked /\ prev.phase # Finished /\ state.phase = Finished) =>
        /\ IsTerminalSet(prev)
        /\ events = <<FinishedEvent>>
        /\ state.workoutTimer = prev.workoutTimer
        /\ state.pauseTimer = prev.pauseTimer

C20_Witness ==
    /\ ticked
    /\ prev.phase = Workout
    /\ IsTerminalSet(prev)
    /\ state.phase = Finished
    /\ state.workoutTimer = 1
    /\ state.pauseTimer = 2

\* The interval the clock is in ends with the next tick: the counted-down
\* timer has reached its last value.
IntervalEnding ==
    \/ state.phase = Ready /\ state.pauseTimer = 1
    \/ state.phase = Workout /\ state.workoutTimer = 1
    \/ state.phase = Rest /\ state.pauseTimer <= 1

\* C21: in the Ready lead-in, in every work interval of an exercise with
\* workoutTime >= 4 and in every rest interval of an exercise with
\* pauseTime >= 4, exactly three almost cues are emitted, on the ticks whose
\* post-decrement timer value is 3, 2 and 1 in that order, and no tick emits
\* the same cue twice.
C21_ThreeAlmostCuesPerInterval ==
    /\ CountOf(events, PlaySoundEvent("almost_start")) <= 1
    /\ CountOf(events, PlaySoundEvent("almost_pause")) <= 1
    /\ (IntervalEnding /\ state.phase = Ready) => almostAt = <<3, 2, 1>>
    /\ (/\ IntervalEnding
        /\ state.phase = Workout
        /\ ExerciseAt(exercises, state.exerciseIndex).workoutTime >= 4)
           => almostAt = <<3, 2, 1>>
    /\ (/\ IntervalEnding
        /\ state.phase = Rest
        /\ ExerciseAt(exercises, state.exerciseIndex).pauseTime >= 4)
           => almostAt = <<3, 2, 1>>

\* C22: a tick taken in phase Workout with workoutTimer > 1 leaves
\* workoutTimer >= 1 and emits no play_sound pause, and every state whose
\* phase is not Finished has workoutTimer >= 1.
C22_WorkoutTimerNeverZero ==
    /\ state.phase # Finished => state.workoutTimer >= 1
    /\ (ticked /\ prev.phase = Workout /\ prev.workoutTimer > 1) =>
          /\ state.workoutTimer = prev.workoutTimer - 1
          /\ state.workoutTimer >= 1
          /\ CountOf(events, PlaySoundEvent("pause")) = 0

C22_Witness ==
    /\ ticked
    /\ prev.phase = Workout
    /\ prev.workoutTimer > 1
    /\ state.phase = Workout
    /\ state.workoutTimer = 1
    /\ state.exerciseIndex > 0

\* C28: a tick on a state in phase Rest at the last set of the last exercise
\* moves to Finished and emits the finished event, whatever the rest timer
\* holds.
C28_RestAtTerminalSetFinishes ==
    (ticked /\ prev.phase = Rest /\ IsTerminalSet(prev)) =>
        /\ state.phase = Finished
        /\ events = <<FinishedEvent>>

C28_Witness ==
    /\ ticked
    /\ prev.phase = Rest
    /\ IsTerminalSet(prev)
    /\ prev.pauseTimer > 1
    /\ state.phase = Finished
    /\ events = <<FinishedEvent>>

\* C30: for every non-empty exercise list, repeated ticks from the initial
\* state reach phase Finished after finitely many ticks, and the finished
\* event is emitted exactly once over the whole run (every list of SpecLive
\* is non-empty).
C30_ReachesFinishedOnce ==
<>[](state.phase = Finished /\ finishedCount = 1)

C30_Witness ==
    /\ Len(exercises) > 0
    /\ ticked
    /\ prev.phase = Finished
    /\ state.phase = Finished
    /\ finishedCount = 1

\* C23: when the host has handled a tick whose events include finished,
\* intervalId is null and no periodic timer is left running; and tickLoop
\* only ever runs while intervalId is set, so tick is not called again until
\* a click on the start button starts a new workout.
C23_NoTickAfterFinished ==
    [][/\ (/\ hostLast'.action = "tick"
           /\ CountOf(hostLast'.events, FinishedEvent) > 0)
              => (host'.intervalId = Null /\ host'.activeTimers = {})
       /\ hostLast'.action = "tick" => host.intervalId # Null]_vars

C23_Witness ==
    /\ hostLast.action = "tick"
    /\ CountOf(hostLast.events, FinishedEvent) = 1
    /\ host.intervalId = Null
    /\ host.activeTimers = {}
    /\ host.startHandlers = 1
    /\ ~host.startButtonHidden

\* C24: under every sequence of start clicks, stopAndResetWorkout calls and
\* finishing ticks, at most one periodic timer is running.
C24_AtMostOneTimer == Cardinality(host.activeTimers) <= 1

C24_Witness ==
    /\ hostLast.action = "click"
    /\ hostLast.starts >= 2
    /\ host.timerCount > hostLast.starts
    /\ Cardinality(host.activeTimers) = 1

\* The calls that restore the triple st, in the order restoreState makes them.
RestoreCalls(st) ==
    <<[fn |-> "loadPose", json |-> st.poseJson],
      [fn |-> "setKeyframeIndex", index |-> st.keyframeIndex],
      [fn |-> "setSelectedJoint", index |-> st.selectedJoint],
      [fn |-> "onHistoryRestore"]>>

\* C25: with both stacks empty, undo() and redo() call none of loadPose,
\* setKeyframeIndex, setSelectedJoint and onHistoryRestore and leave both
\* stacks empty.
C25_UndoRedoOnEmptyHistory ==
    [][(/\ historyLast'.op \in {"undo", "redo"}
        /\ history.undoStack = <<>>
        /\ history.redoStack = <<>>)
           => /\ history'.calls = <<>>
              /\ history'.undoStack = <<>>
              /\ history'.redoStack = <<>>]_vars

C25_Witness ==
    /\ history.callbacks
    /\ historyLast.op \in {"undo", "redo"}
    /\ historyLast.before = "clear"
    /\ historyLast.saves > 0
    /\ history.calls = <<>>
    /\ history.undoStack = <<>>
    /\ history.redoStack = <<>>

\* C26: the first undo() after saveUndoState captured a triple restores
\* exactly that triple with loadPose, setKeyframeIndex, setSelectedJoint and
\* then onHistoryRestore, whatever the editor holds by then; and the redo()
\* that follows restores the triple the editor held when undo() was called.
C26_UndoRestoresCapturedState ==
    [][/\ (historyLast'.op = "undo" /\ historyLast.captured # <<>>)
              => history'.calls = RestoreCalls(historyLast.captured[1])
       /\ (historyLast'.op = "redo" /\ historyLast.beforeUndo # <<>>)
              => history'.calls = RestoreCalls(historyLast.beforeUndo[1])]_vars

C26_Witness ==
    /\ historyLast.op = "redo"
    /\ historyLast.redone # <<>>
    /\ history.calls = RestoreCalls(historyLast.redone[1])
    /\ Len(history.undoStack) = 1
    /\ history.undoStack[1].poseJson # historyLast.redone[1].poseJson
    /\ history.undoStack[1].keyframeIndex # historyLast.redone[1].keyframeIndex
    /\ history.undoStack[1].selectedJoint # historyLast.redone[1].selectedJoint

\* C27: saveUndoState leaves the redo stack empty, and a redo() right after a
\* saveUndoState restores nothing and calls no callback.
C27_SaveClearsRedo ==
    [][/\ historyLast'.op = "save" => history'.redoStack = <<>>
       /\ (historyLast.op = "save" /\ historyLast'.op = "redo")
              => /\ history'.calls = <<>>
                 /\ history'.editor = history.editor
                 /\ history'.undoStack = history.undoStack]_vars

C27_Witness ==
    /\ historyLast.op = "redo"
    /\ historyLast.before = "save"
    /\ historyLast.discarded > 0
    /\ history.calls = <<>>
    /\ history.redoStack = <<>>

\* C29: whenever no periodic timer is running, no screen wake lock is held,
\* under every interleaving of the wake lock request's completion with
\* releaseWakeLock.
C29_NoWakeLockWithoutTimer ==
    host.activeTimers = {} => host.heldSentinels = {}

\* The last tick ended an interval: it was called in one phase and returned
\* another.
IntervalEnded == ticked /\ prev.phase # state.phase

\* C31: the number of ticks called while the phase is Ready is the lead-in
\* constant 10, the number called while it is Workout during one set is the
\* exercise's workoutTime, and the number called while it is Rest during one
\* rest interval is the exercise's pauseTime when that is >= 1.
C31_TicksPerInterval ==
    IntervalEnded =>
        /\ prev.phase = Ready => phaseTicks = READY_PHASE_DURATION
        /\ prev.phase = Workout =>
               phaseTicks = ExerciseAt(exercises, prev.exerciseIndex).workoutTime
        /\ (/\ prev.phase = Rest
            /\ ExerciseAt(exercises, prev.exerciseIndex).pauseTime >= 1) =>
               phaseTicks = ExerciseAt(exercises, prev.exerciseIndex).pauseTime

\* C32: the start_exercise events of a run carry the exercise names in list
\* order, one per exercise: a tick emits one exactly when it moves from Ready
\* to Workout or raises exerciseIndex to a further exercise of the list, and
\* at Finished every name has been emitted once.
C32_StartExerciseInListOrder ==
    /\ Len(startedNames) <= Len(exercises)
    /\ \A i \in 1..Len(startedNames) : startedNames[i] = exercises[i].name
    /\ state.phase = Finished => Len(startedNames) = Len(exercises)
    /\ ticked =>
          Len(StartedIn(events)) =
              IF \/ prev.phase = Ready /\ state.phase = Workout
                 \/ /\ state.exerciseIndex > prev.exerciseIndex
                    /\ state.phase # Finished
              THEN 1
              ELSE 0

C32_Witness ==
    /\ state.phase = Finished
    /\ ticked
    /\ Len(exercises) = MaxExercises
    /\ startedNames = [i \in 1..Len(exercises) |-> exercises[i].name]
    /\ \A i \in 1..Len(exercises) : exercises[i].setCount > 1

\* C33: play_sound start is emitted once per set, on the tick that begins the
\* set's work interval, so at Finished the number of start cues is the sum of
\* setCount over all exercises.
C33_OneStartCuePerSet ==
    /\ ticked =>
          CountOf(events, PlaySoundEvent("start")) =
              IF state.phase = Workout /\ prev.phase # Workout THEN 1 ELSE 0
    /\ startCues <= TotalSets(exercises)
    /\ state.phase = Finished => startCues = TotalSets(exercises)

C33_Witness ==
    /\ state.phase = Finished
    /\ ticked
    /\ Len(exercises) = MaxExercises
    /\ startCues = TotalSets(exercises)
    /\ startCues > Len(exercises)

\* C34: a tick emits phase_change(p) exactly when the phase it returns is p,
\* differs from the phase it was called in and is not Finished; it emits
\* finished exactly when the phase changes to Finished; and it never emits
\* more than one phase_change.
C34_PhaseChangeIffPhaseDiffers ==
    ticked =>
        /\ \A p \in WorkoutPhase :
              CountOf(events, PhaseChangeEvent(p)) =
                  IF p = state.phase /\ p # prev.phase /\ p # Finished
                  THEN 1
                  ELSE 0
        /\ CountOf(events, FinishedEvent) =
               IF state.phase = Finished /\ prev.phase # Finished
               THEN 1
               ELSE 0
        /\ Len(SelectSeq(events, LAMBDA e : e.type = "phase_change")) <= 1

C34_Witness ==
    /\ ticked
    /\ prev.phase = Workout
    /\ state.phase = Rest
    /\ events = <<PhaseChangeEvent(Rest)>>

\* The sets of the list from set s of exercise i on, in the order they are
\* worked, as pairs <<exerciseIndex, setIndex>>.
RECURSIVE SetsFrom(_, _, _)
SetsFrom(exs, i, s) ==
    IF i >= Len(exs)
    THEN <<>>
    ELSE IF s > ExerciseAt(exs, i).setCount
         THEN SetsFrom(exs, i + 1, 1)
         ELSE <<<<i, s>>>> \o SetsFrom(exs, i, s + 1)

\* C35: a tick leaves (exerciseIndex, setIndex) as it is, or raises setIndex
\* by one within the exercise, or raises exerciseIndex by one with setIndex
\* back at 1; and the work intervals entered are the sets of the list in
\* order, each once, all of them by the time the run is Finished.
C35_SetsWorkedInOrder ==
    /\ ticked =>
          \/ /\ state.exerciseIndex = prev.exerciseIndex
             /\ state.setIndex = prev.setIndex
          \/ /\ state.exerciseIndex = prev.exerciseIndex
             /\ state.setIndex = prev.setIndex + 1
          \/ /\ state.exerciseIndex = prev.exerciseIndex + 1
             /\ state.setIndex = 1
    /\ Len(workedSets) <= TotalSets(exercises)
    /\ workedSets = SubSeq(SetsFrom(exercises, 0, 1), 1, Len(workedSets))
    /\ (state.phase = Finished /\ Len(exercises) > 0) =>
          workedSets = SetsFrom(exercises, 0, 1)

C35_Witness ==
    /\ state.phase = Finished
    /\ ticked
    /\ Len(exercises) = MaxExercises
    /\ workedSets = SetsFrom(exercises, 0, 1)
    /\ Len(workedSets) = MaxExercises * MaxSetCount

\* C36: the only phase transitions a tick makes are Ready->Ready,
\* Ready->Workout, Workout->Workout, Workout->Rest, Workout->Finished,
\* Rest->Rest, Rest->Workout and Finished->Finished.
C36_AllowedPhaseTransitions ==
    ticked =>
        <<prev.phase, state.phase>> \in
            {<<Ready, Ready>>, <<Ready, Workout>>,
             <<Workout, Workout>>, <<Workout, Rest>>, <<Workout, Finished>>,
             <<Rest, Rest>>, <<Rest, Workout>>,
             <<Finished, Finished>>}

C36_Witness ==
    /\ ticked
    /\ prev.phase = Rest
    /\ prev.pauseTimer = 1
    /\ state.phase = Workout
    /\ state.exerciseIndex > prev.exerciseIndex

\* The state skipToExercise sets for the exercise at index i.
SkipTarget(i) ==
    [phase |-> Workout,
     exerciseIndex |-> i,
     setIndex |-> 1,
     workoutTimer |-> ExerciseAt(exercises, i).workoutTime,
     pauseTimer |-> ExerciseAt(exercises, i).pauseTime]

\* While the phase of s is Workout or Rest, s is on a set of the list.
OnASet(s) ==
    s.phase \in {Workout, Rest} =>
        /\ 0 <= s.exerciseIndex
        /\ s.exerciseIndex < Len(exercises)
        /\ 1 <= s.setIndex
        /\ s.setIndex <= ExerciseAt(exercises, s.exerciseIndex).setCount

\* C37: under every interleaving of timer ticks with the skip callbacks the
\* host's state stays on a set of the list while its phase is Workout or
\* Rest; a skip to an exercise of the list sets the state to Workout on set 1
\* of the target with the target's workoutTime and pauseTime; skip-next on
\* the last exercise, skip-previous on the first and skipToExercise with an
\* index outside the list leave the state unchanged.
C37_SkipKeepsStateOnASet ==
    [][/\ OnASet(host.state)
       /\ OnASet(host'.state)
       /\ hostLast'.action = "next" =>
              host'.state =
                  IF host.state.exerciseIndex + 1 < Len(exercises)
                  THEN SkipTarget(host.state.exerciseIndex + 1)
                  ELSE host.state
       /\ hostLast'.action = "prev" =>
              host'.state =
                  IF host.state.exerciseIndex >= 1
                  THEN SkipTarget(host.state.exerciseIndex - 1)
                  ELSE host.state
       /\ \A i \in {-1, Len(exercises), Len(exercises) + 1} :
              skipToExercise(host, exercises, i) = host]_vars

C37_Witness ==
    /\ hostLast.action = "prev"
    /\ host.activeTimers # {}
    /\ Len(exercises) >= 2
    /\ host.state = SkipTarget(Len(exercises) - 2)
    /\ host.timerCount = 1

\* C38: after every sequence of saveUndoState, undo, redo and clearHistory
\* the undo stack holds at most MAX_UNDO_STATES = 10 entries and the undo and
\* redo stacks together hold at most 10; a saveUndoState on a full undo stack
\* (the eleventh state saved) discards the oldest entry and appends the
\* captured state.
C38_UndoStackCapped ==
    [][/\ Len(history'.undoStack) <= MAX_UNDO_STATES
       /\ Len(history'.undoStack) + Len(history'.redoStack) <= MAX_UNDO_STATES
       /\ (/\ historyLast'.op = "add"
           /\ history.callbacks
           /\ Len(history.undoStack) = MAX_UNDO_STATES)
              => /\ history'.undoStack =
                        Append(Tail(history.undoStack), history.editor)
                 /\ history'.redoStack = <<>>]_vars

C38_Witness ==
    /\ historyLast.op = "add"
    /\ historyLast.undoBefore = MAX_UNDO_STATES
    /\ Len(history.undoStack) = MAX_UNDO_STATES
    /\ history.undoStack[1].keyframeIndex = 1
    /\ history.undoStack[MAX_UNDO_STATES].keyframeIndex = MAX_UNDO_STATES
    /\ history.editor.keyframeIndex = MAX_UNDO_STATES + 1

====
